---- MODULE Spec2Model ----
(***************************************************************************)
(* Submission eligibility of exercise/exercise_models.py (BaseExercise)    *)
(* and the content cache of lib/cached.py.                                 *)
(*                                                                         *)
(* Times are integers (one unit = one tick of the clock).  A time field    *)
(* that is None in the program holds NoTime; an object reference that is   *)
(* None holds the record None.                                             *)
(***************************************************************************)
EXTENDS Integers, Sequences, FiniteSets, TLC

\* ------------------------------------------------------------------ bounds
MaxTime == 3          \* times are 0..MaxTime
MaxExtra == 2         \* a deadline deviation grants 0..MaxExtra extra time units
MaxSubmissions == 2   \* exercise.max_submissions is 0..MaxSubmissions
MaxExtraSubs == 1     \* a quota deviation grants 0..MaxExtraSubs extra submissions
MaxHistory == 2       \* stored submissions of the exercise
MaxVersion == 1       \* at most MaxVersion saves are made
MaxRows == 3          \* stored deadline deviations when one student may have several

Students == {1, 2, 3}          \* user profiles, by id
DeviationStudents == {1, 2}    \* the profiles that deviations and student lists draw on
Times == 0..MaxTime
NoTime == 0 - 1
None == [none |-> TRUE]

VARIABLES
    exercise,                   \* BaseExercise fields: status, group sizes, max_submissions
    course_module,              \* CourseModule: the schedule of the exercise's module
    course_instance,            \* CourseInstance: archive time, staff, enrollments
    category,                   \* LearningObjectCategory: flags
    deadlineruledeviation_set,  \* stored DeadlineRuleDeviation rows, in stored order
    maxsubmissionsruledeviation_set, \* stored MaxSubmissionsRuleDeviation rows
    submissions,                \* stored submissions of the exercise, oldest first
    now,                        \* the clock (timezone.now())
    call,                       \* the last call and what it returned
    learning_objects,           \* LearningObject rows: class, parent, saved version
    cache,                      \* django.core.cache: key -> stored payload
    lookup,                     \* per request: where its cache lookup stands
    written                     \* history: key -> the payloads set under it since
                                \* the key was last deleted

config == <<exercise, course_module, course_instance, category,
            deadlineruledeviation_set, maxsubmissionsruledeviation_set>>

cachestate == <<learning_objects, cache, lookup, written>>

vars == <<config, submissions, now, call, cachestate>>

\* TIMING enumeration (exercise_models.py 293-300)
TIMING == {"CLOSED_BEFORE", "OPEN", "LATE", "UNOFFICIAL", "CLOSED_AFTER", "ARCHIVED"}

\* LearningObject.STATUS enumeration (exercise_models.py 66-73)
STATUS ==
    {"ready", "unlisted", "enrollment", "enrollment_ext", "hidden", "maintenance"}

\* ------------------------------------------------------- sequence helpers
RECURSIVE SeqsUpTo(_, _)
SeqsUpTo(S, n) ==
    IF n = 0 THEN {<<>>}
    ELSE LET shorter == SeqsUpTo(S, n - 1)
         IN shorter \cup {Append(s, x) : s \in shorter, x \in S}

Range(s) == {s[i] : i \in DOMAIN s}

\* ordered, duplicate-free, non-empty lists of students
StudentLists ==
    {s \in SeqsUpTo(DeviationStudents, Cardinality(DeviationStudents)) :
        s # <<>> /\ Cardinality(Range(s)) = Len(s)}

\* StudentGroup rows of the course instance: group id -> members.all()
student_groups == << <<1, 2>>, <<1, 3>>, <<2, 3>> >>

\* ------------------------------------------------- course.models accessors
is_after_open(when) == course_module.opening_time <= when

is_open(when) ==
    course_module.opening_time <= when /\ when <= course_module.closing_time

is_late_submission_open(when) ==
    /\ course_module.late_submissions_allowed
    /\ course_module.closing_time <= when
    /\ when <= course_module.late_submission_deadline

is_archived(when) ==
    course_instance.archive_time # NoTime /\ course_instance.archive_time <= when

get_new_deadline(d) == course_module.closing_time + d.extra_minutes

get_late_submission_point_worth ==
    IF course_module.late_submissions_allowed
    THEN 100 - course_module.late_submission_penalty
    ELSE 0

get_enrollment_for(user) ==
    IF user \in course_instance.enrolled
    THEN [selected_group |-> course_instance.selected_group[user]]
    ELSE None

is_enrollable(user) == user \in course_instance.enrollable

is_course_staff(user) == user \in course_instance.course_staff

\* StudentGroup.equals: the member sets are compared, not the order
group_equals(group, profiles) == Range(student_groups[group]) = Range(profiles)

\* the names a warning lists: everyone but the requester
collaborator_names(members, profile) == Range(members) \ {profile}

\* --------------------------------------------------- DeviationResolver
deviations_of(profile) ==
    SelectSeq(deadlineruledeviation_set, LAMBDA d : d.submitter = profile)

\* a deviation with an equal deadline replaces the one found before
RECURSIVE scan_deviations_last_wins(_, _)
scan_deviations_last_wins(ds, deviation) ==
    IF ds = <<>> THEN deviation
    ELSE LET d == Head(ds)
         IN scan_deviations_last_wins(Tail(ds),
                IF deviation = None
                      \/ get_new_deadline(d) >= get_new_deadline(deviation)
                THEN d ELSE deviation)

RECURSIVE scan_deviations(_, _)
scan_deviations(ds, deviation) ==
    IF ds = <<>> THEN deviation
    ELSE LET d == Head(ds)
         IN scan_deviations(Tail(ds),
                IF deviation = None
                      \/ get_new_deadline(d) > get_new_deadline(deviation)
                THEN d ELSE deviation)

RECURSIVE scan_students(_, _)
scan_students(students, deviation) ==
    IF students = <<>> THEN deviation
    ELSE scan_students(Tail(students),
             scan_deviations(deviations_of(Head(students)), deviation))

one_has_deadline_deviation(students) == scan_students(students, None)

\* ------------------------------------------------------ TimingEvaluator
\* the deviation's deadline itself is no longer within the extension
timing_after_close_deadline_exclusive(students, when) ==
    LET deviation == one_has_deadline_deviation(students)
        dl == IF deviation # None THEN get_new_deadline(deviation) ELSE NoTime
    IN IF dl # NoTime /\ when < dl
       THEN IF deviation.without_late_penalty
            THEN [timing |-> "OPEN", dl |-> dl]
            ELSE [timing |-> "LATE", dl |-> dl]
       ELSE IF is_late_submission_open(when)
       THEN [timing |-> "LATE", dl |-> course_module.late_submission_deadline]
       ELSE
         LET dl2 == IF dl # NoTime THEN dl
                    ELSE IF course_module.late_submissions_allowed
                         THEN course_module.late_submission_deadline
                         ELSE course_module.closing_time
         IN IF category.accept_unofficial_submits
            THEN [timing |-> "UNOFFICIAL", dl |-> dl2]
            ELSE [timing |-> "CLOSED_AFTER", dl |-> dl2]

\* past all deadlines the module's own deadline is reported, never the
\* deviation's
timing_after_close_module_deadline(students, when) ==
    LET deviation == one_has_deadline_deviation(students)
        dl == IF deviation # None THEN get_new_deadline(deviation) ELSE NoTime
    IN IF dl # NoTime /\ when <= dl
       THEN IF deviation.without_late_penalty
            THEN [timing |-> "OPEN", dl |-> dl]
            ELSE [timing |-> "LATE", dl |-> dl]
       ELSE IF is_late_submission_open(when)
       THEN [timing |-> "LATE", dl |-> course_module.late_submission_deadline]
       ELSE
         LET dl2 == IF course_module.late_submissions_allowed
                    THEN course_module.late_submission_deadline
                    ELSE course_module.closing_time
         IN IF category.accept_unofficial_submits
            THEN [timing |-> "UNOFFICIAL", dl |-> dl2]
            ELSE [timing |-> "CLOSED_AFTER", dl |-> dl2]

\* get_timing once the module is past OPEN and the course is not archived
timing_after_close(students, when) ==
    LET deviation == one_has_deadline_deviation(students)
        dl == IF deviation # None THEN get_new_deadline(deviation) ELSE NoTime
    IN IF dl # NoTime /\ when <= dl
       THEN IF deviation.without_late_penalty
            THEN [timing |-> "OPEN", dl |-> dl]
            ELSE [timing |-> "LATE", dl |-> dl]
       ELSE IF is_late_submission_open(when)
       THEN [timing |-> "LATE", dl |-> course_module.late_submission_deadline]
       ELSE
         LET dl2 == IF dl # NoTime THEN dl
                    ELSE IF course_module.late_submissions_allowed
                         THEN course_module.late_submission_deadline
                         ELSE course_module.closing_time
         IN IF category.accept_unofficial_submits
            THEN [timing |-> "UNOFFICIAL", dl |-> dl2]
            ELSE [timing |-> "CLOSED_AFTER", dl |-> dl2]

\* the OPEN branch answers with the opening time instead of the closing time
get_timing_open_until_opening(students, when) ==
    IF ~is_after_open(when)
    THEN [timing |-> "CLOSED_BEFORE", dl |-> course_module.opening_time]
    ELSE IF is_open(when) \/ category.confirm_the_level
    THEN [timing |-> "OPEN", dl |-> course_module.opening_time]
    ELSE IF course_instance.archive_time # NoTime /\ is_archived(when)
    THEN [timing |-> "ARCHIVED", dl |-> course_instance.archive_time]
    ELSE timing_after_close(students, when)

\* a deadline still running is looked at before the archive time
get_timing_deviation_before_archive(students, when) ==
    IF ~is_after_open(when)
    THEN [timing |-> "CLOSED_BEFORE", dl |-> course_module.opening_time]
    ELSE IF is_open(when) \/ category.confirm_the_level
    THEN [timing |-> "OPEN", dl |-> course_module.closing_time]
    ELSE LET t == timing_after_close(students, when)
         IN IF t.timing \in {"OPEN", "LATE"} THEN t
            ELSE IF course_instance.archive_time # NoTime /\ is_archived(when)
            THEN [timing |-> "ARCHIVED", dl |-> course_instance.archive_time]
            ELSE t

get_timing(students, when) ==
    IF ~is_after_open(when)
    THEN [timing |-> "CLOSED_BEFORE", dl |-> course_module.opening_time]
    ELSE IF is_open(when) \/ category.confirm_the_level
    THEN [timing |-> "OPEN", dl |-> course_module.closing_time]
    ELSE IF course_instance.archive_time # NoTime /\ is_archived(when)
    THEN [timing |-> "ARCHIVED", dl |-> course_instance.archive_time]
    ELSE timing_after_close(students, when)

\* --------------------------------------------------------------- quota
\* user_profile.submissions[.exclude_errors()].filter(exercise=self)
get_submissions_for_student(user_profile, exclude_errors) ==
    SelectSeq(submissions,
        LAMBDA sub : /\ user_profile \in Range(sub.submitters)
                     /\ (exclude_errors => ~sub.error))

\* maxsubmissionsruledeviation_set.filter(submitter=user_profile).first()
first_max_submissions_deviation(user_profile) ==
    LET rows == SelectSeq(maxsubmissionsruledeviation_set,
                    LAMBDA d : d.submitter = user_profile)
    IN IF rows = <<>> THEN None ELSE Head(rows)

max_submissions_for_student(user_profile) ==
    LET deviation == first_max_submissions_deviation(user_profile)
    IN IF deviation # None
       THEN exercise.max_submissions + deviation.extra_submissions
       ELSE exercise.max_submissions

\* every student, not just one, must be below the maximum
RECURSIVE all_below_max(_)
all_below_max(students) ==
    IF students = <<>> THEN TRUE
    ELSE IF Len(get_submissions_for_student(Head(students), TRUE))
               < max_submissions_for_student(Head(students))
    THEN all_below_max(Tail(students))
    ELSE FALSE

RECURSIVE any_below_max(_)
any_below_max(students) ==
    IF students = <<>> THEN FALSE
    ELSE IF Len(get_submissions_for_student(Head(students), TRUE))
               < max_submissions_for_student(Head(students))
    THEN TRUE
    ELSE any_below_max(Tail(students))

\* the shortcut for an unlimited exercise is missing
one_has_submissions_no_unlimited(students) == any_below_max(students)

one_has_submissions(students) ==
    IF exercise.max_submissions = 0 THEN TRUE ELSE any_below_max(students)

\* one student beyond the maximum is enough
RECURSIVE some_beyond_max(_)
some_beyond_max(students) ==
    IF students = <<>> THEN FALSE
    ELSE IF Len(get_submissions_for_student(Head(students), TRUE))
               > max_submissions_for_student(Head(students))
    THEN TRUE
    ELSE some_beyond_max(Tail(students))

RECURSIVE none_within_max(_)
none_within_max(students) ==
    IF students = <<>> THEN TRUE
    ELSE IF Len(get_submissions_for_student(Head(students), TRUE))
               <= max_submissions_for_student(Head(students))
    THEN FALSE
    ELSE none_within_max(Tail(students))

no_submissions_left(students) ==
    IF exercise.max_submissions = 0 THEN FALSE ELSE none_within_max(students)

\* ------------------------------------------------------- one_has_access
\* an archived course still takes submissions
one_has_access_archived_allowed(students, when) ==
    LET t == get_timing(students, IF when # NoTime THEN when ELSE now)
    IN IF t.timing \in {"OPEN", "ARCHIVED"} THEN [ok |-> TRUE, warnings |-> <<>>]
       ELSE IF t.timing = "LATE"
       THEN [ok |-> TRUE,
             warnings |-> <<[msg |-> "late_allowed_until", date |-> t.dl,
                             percent |-> get_late_submission_point_worth]>>]
       ELSE IF t.timing = "UNOFFICIAL"
       THEN [ok |-> TRUE,
             warnings |-> <<[msg |-> "unofficial_feedback_only", date |-> t.dl]>>]
       ELSE IF t.timing = "CLOSED_BEFORE"
       THEN [ok |-> FALSE, warnings |-> <<[msg |-> "opens", date |-> t.dl]>>]
       ELSE [ok |-> FALSE,
             warnings |-> <<[msg |-> "deadline_passed", date |-> t.dl]>>]

\* when = NoTime stands for when=None
one_has_access(students, when) ==
    LET t == get_timing(students, IF when # NoTime THEN when ELSE now)
    IN IF t.timing = "OPEN" THEN [ok |-> TRUE, warnings |-> <<>>]
       ELSE IF t.timing = "LATE"
       THEN [ok |-> TRUE,
             warnings |-> <<[msg |-> "late_allowed_until", date |-> t.dl,
                             percent |-> get_late_submission_point_worth]>>]
       ELSE IF t.timing = "UNOFFICIAL"
       THEN [ok |-> TRUE,
             warnings |-> <<[msg |-> "unofficial_feedback_only", date |-> t.dl]>>]
       ELSE IF t.timing = "CLOSED_BEFORE"
       THEN [ok |-> FALSE, warnings |-> <<[msg |-> "opens", date |-> t.dl]>>]
       ELSE IF t.timing = "CLOSED_AFTER"
       THEN [ok |-> FALSE,
             warnings |-> <<[msg |-> "deadline_passed", date |-> t.dl]>>]
       ELSE IF t.timing = "ARCHIVED"
       THEN [ok |-> FALSE, warnings |-> <<[msg |-> "archived", date |-> t.dl]>>]
       ELSE [ok |-> FALSE, warnings |-> <<[msg |-> "ERROR"]>>]

\* ---------------------------------------------- GroupConsistencyChecker
\* group is a group id, 0 for None
\* "and" where the code has "or"
detect_group_changes_and(profile, group, submission) ==
    LET submitters == submission.submitters
    IN IF group # 0
       THEN ~group_equals(group, submitters)
       ELSE Len(submitters) > 1 /\ submitters[1] # profile

\* a requested group is never compared with the earlier submitters
detect_group_changes_solo_only(profile, group, submission) ==
    LET submitters == submission.submitters
    IN IF group # 0
       THEN FALSE
       ELSE Len(submitters) > 1 \/ submitters[1] # profile

detect_group_changes(profile, group, submission) ==
    LET submitters == submission.submitters
    IN IF group # 0
       THEN ~group_equals(group, submitters)
       ELSE Len(submitters) > 1 \/ submitters[1] # profile

\* submissions in error state are not counted
detect_submissions_exclude_errors(profile, group) ==
    IF group # 0
    THEN ~(\A p \in Range(student_groups[group]) \ {profile} :
              Len(get_submissions_for_student(p, TRUE)) = 0)
    ELSE FALSE

detect_submissions(profile, group) ==
    IF group # 0
    THEN ~(\A p \in Range(student_groups[group]) \ {profile} :
              Len(get_submissions_for_student(p, FALSE)) = 0)
    ELSE FALSE

\* ---------------------------------------------------- EligibilityEngine
\* int(group_id) of a text, which is the sequence of its Unicode code points:
\* surrounding whitespace is dropped, one sign is allowed, then decimal digits
\* of any script, single underscores only between digits, at most
\* INT_MAX_STR_DIGITS digits; the value, or ValueError (the empty sequence)

\* the characters int() drops around the numeral: tab to carriage return,
\* space, next line, no-break space, ogham space mark, en quad to hair space,
\* line and paragraph separator, narrow no-break space, medium mathematical
\* space, ideographic space
Whitespace ==
    (9..13) \cup {32, 133, 160, 5760} \cup (8192..8202)
        \cup {8232, 8233, 8239, 8287, 12288}

\* the digit zero of every run of ten decimal digits (Unicode 14.0): DIGIT
\* ZERO, ARABIC-INDIC, EXTENDED ARABIC-INDIC, NKO, DEVANAGARI, ... FULLWIDTH
\* (65296), ... SEGMENTED (130032)
DecimalZeros ==
    {
     48, 1632, 1776, 1984, 2406, 2534, 2662, 2790,
     2918, 3046, 3174, 3302, 3430, 3558, 3664, 3792,
     3872, 4160, 4240, 6112, 6160, 6470, 6608, 6784,
     6800, 6992, 7088, 7232, 7248, 42528, 43216, 43264,
     43472, 43504, 43600, 44016, 65296, 66720, 68912, 69734,
     69872, 69942, 70096, 70384, 70736, 70864, 71248, 71360,
     71472, 71904, 72016, 72784, 73040, 73120, 92768, 92864,
     93008, 120782, 120792, 120802, 120812, 120822, 123200, 123632,
     125264, 130032
    }

\* the value of every decimal digit
DecimalValue ==
    [c \in UNION {z..(z + 9) : z \in DecimalZeros} |->
        c - (CHOOSE z \in DecimalZeros : c \in z..(z + 9))]

PLUS == 43
MINUS == 45
UNDERSCORE == 95

\* the default limit of the digits of a text that int() converts
INT_MAX_STR_DIGITS == 4300

RECURSIVE lstrip(_)
lstrip(text) ==
    IF text # <<>> /\ Head(text) \in Whitespace
    THEN lstrip(Tail(text)) ELSE text

RECURSIVE rstrip(_)
rstrip(text) ==
    IF text # <<>> /\ text[Len(text)] \in Whitespace
    THEN rstrip(SubSeq(text, 1, Len(text) - 1)) ELSE text

strip(text) == rstrip(lstrip(text))

RECURSIVE digits_value(_, _)
digits_value(text, value) ==
    IF text = <<>> THEN <<value>>
    ELSE LET c == Head(text)
         IN IF c \in DOMAIN DecimalValue
            THEN digits_value(Tail(text), 10 * value + DecimalValue[c])
            ELSE IF /\ c = UNDERSCORE
                    /\ Len(text) >= 2
                    /\ text[2] \in DOMAIN DecimalValue
            THEN digits_value(Tail(text), value)
            ELSE <<>>

\* how many digits the text has
digit_count(text) ==
    Cardinality({i \in DOMAIN text : text[i] \in DOMAIN DecimalValue})

unsigned_int(text) ==
    IF /\ text # <<>>
       /\ Head(text) \in DOMAIN DecimalValue
       /\ digit_count(text) <= INT_MAX_STR_DIGITS
    THEN digits_value(text, 0) ELSE <<>>

parse_int(text) ==
    LET stripped == strip(text)
        sign == IF stripped = <<>> THEN 0 ELSE Head(stripped)
        magnitude == unsigned_int(IF sign \in {PLUS, MINUS}
                                  THEN Tail(stripped) ELSE stripped)
    IN IF magnitude = <<>> THEN <<>>
       ELSE IF sign = MINUS THEN <<0 - magnitude[1]>> ELSE magnitude

\* profile.groups.filter(course_instance=..., id=gid).first()
group_of_profile(profile, gid) ==
    IF gid \in DOMAIN student_groups /\ profile \in Range(student_groups[gid])
    THEN gid ELSE 0

\* request is None or carries POST; POST.get("_aplus_group") is <<>> for None
selected_group_for(profile, request, enrollment) ==
    LET group_id == IF request # None THEN request.aplus_group ELSE <<>>
    IN IF group_id # <<>>
       THEN LET gid == parse_int(group_id[1])
            IN IF gid # <<>> /\ gid[1] > 0
               THEN group_of_profile(profile, gid[1])
               ELSE 0
       ELSE IF enrollment # None /\ enrollment.selected_group # 0
       THEN enrollment.selected_group
       ELSE 0

size_text ==
    IF exercise.max_group_size = exercise.min_group_size
    THEN <<exercise.min_group_size>>
    ELSE <<exercise.min_group_size, exercise.max_group_size>>

\* the quota warning blocks whether or not late submissions are allowed
final_checks_quota_always_blocks(students) ==
    LET size_warnings ==
            IF ~(exercise.min_group_size <= Len(students)
                   /\ Len(students) <= exercise.max_group_size)
            THEN <<[msg |-> "group_size", size |-> size_text]>>
            ELSE <<>>
        access == one_has_access(students, NoTime)
        used_up == ~one_has_submissions(students)
        late == course_module.late_submissions_allowed
        warnings ==
            size_warnings \o
                (IF used_up
                 THEN <<[msg |-> IF late THEN "submissions_used_unofficial_only"
                                 ELSE "submissions_used"]>>
                 ELSE <<>>)
        ok == \/ access.ok /\ Len(warnings) = 0
              \/ \A p \in Range(students) : is_course_staff(p)
    IN [ok |-> ok, warnings |-> warnings \o access.warnings,
        students |-> students]

\* a group of exactly max_group_size students is taken as too large
final_checks_max_size_exclusive(students) ==
    LET size_warnings ==
            IF ~(exercise.min_group_size <= Len(students)
                   /\ Len(students) < exercise.max_group_size)
            THEN <<[msg |-> "group_size", size |-> size_text]>>
            ELSE <<>>
        access == one_has_access(students, NoTime)
        used_up == ~one_has_submissions(students)
        late == course_module.late_submissions_allowed
        access_warnings ==
            access.warnings \o
                (IF used_up /\ late
                 THEN <<[msg |-> "submissions_used_unofficial_only"]>>
                 ELSE <<>>)
        warnings ==
            size_warnings \o
                (IF used_up /\ ~late
                 THEN <<[msg |-> "submissions_used"]>>
                 ELSE <<>>)
        ok == \/ access.ok /\ Len(warnings) = 0
              \/ \A p \in Range(students) : is_course_staff(p)
    IN [ok |-> ok, warnings |-> warnings \o access_warnings,
        students |-> students]

\* the checks on the resolved submitters: group size, access, quota, verdict
final_checks(students) ==
    LET size_warnings ==
            IF ~(exercise.min_group_size <= Len(students)
                   /\ Len(students) <= exercise.max_group_size)
            THEN <<[msg |-> "group_size", size |-> size_text]>>
            ELSE <<>>
        access == one_has_access(students, NoTime)
        used_up == ~one_has_submissions(students)
        late == course_module.late_submissions_allowed
        access_warnings ==
            access.warnings \o
                (IF used_up /\ late
                 THEN <<[msg |-> "submissions_used_unofficial_only"]>>
                 ELSE <<>>)
        warnings ==
            size_warnings \o
                (IF used_up /\ ~late
                 THEN <<[msg |-> "submissions_used"]>>
                 ELSE <<>>)
        ok == \/ access.ok /\ Len(warnings) = 0
              \/ \A p \in Range(students) : is_course_staff(p)
    IN [ok |-> ok, warnings |-> warnings \o access_warnings,
        students |-> students]

\* course staff may enter an enrollment exercise without being enrollable
check_submission_allowed_staff_may_enroll(profile, request) ==
    LET enrollment == get_enrollment_for(profile)
        enrollment_exercise == exercise.status \in {"enrollment", "enrollment_ext"}
    IN
    IF enrollment_exercise /\ ~is_enrollable(profile)
    THEN [ok |-> is_course_staff(profile), warnings |-> <<[msg |-> "cannot_enroll"]>>,
          students |-> <<profile>>]
    ELSE IF ~enrollment_exercise /\ enrollment = None
    THEN [ok |-> is_course_staff(profile), warnings |-> <<[msg |-> "must_enroll"]>>,
          students |-> <<profile>>]
    ELSE
      LET group == selected_group_for(profile, request, enrollment)
          subs == get_submissions_for_student(profile, FALSE)
      IN
      IF Len(subs) > 0 /\ detect_group_changes(profile, group, subs[1])
      THEN [ok |-> FALSE,
            warnings |->
                IF Len(subs[1].submitters) = 1
                THEN <<[msg |-> "previously_submitted_alone"]>>
                ELSE <<[msg |-> "previously_submitted_with",
                        collaborators |->
                            collaborator_names(subs[1].submitters, profile)]>>,
            students |-> <<profile>>]
      ELSE IF Len(subs) = 0 /\ detect_submissions(profile, group)
      THEN [ok |-> FALSE,
            warnings |-> <<[msg |-> "already_submitted_in_different_group",
                            collaborators |->
                                collaborator_names(student_groups[group], profile)]>>,
            students |-> <<profile>>]
      ELSE final_checks(IF group # 0 THEN student_groups[group] ELSE <<profile>>)

check_submission_allowed(profile, request) ==
    LET enrollment == get_enrollment_for(profile)
        enrollment_exercise == exercise.status \in {"enrollment", "enrollment_ext"}
    IN
    IF enrollment_exercise /\ ~is_enrollable(profile)
    THEN [ok |-> FALSE, warnings |-> <<[msg |-> "cannot_enroll"]>>,
          students |-> <<profile>>]
    ELSE IF ~enrollment_exercise /\ enrollment = None
    THEN [ok |-> is_course_staff(profile), warnings |-> <<[msg |-> "must_enroll"]>>,
          students |-> <<profile>>]
    ELSE
      LET group == selected_group_for(profile, request, enrollment)
          subs == get_submissions_for_student(profile, FALSE)
      IN
      IF Len(subs) > 0 /\ detect_group_changes(profile, group, subs[1])
      THEN [ok |-> FALSE,
            warnings |->
                IF Len(subs[1].submitters) = 1
                THEN <<[msg |-> "previously_submitted_alone"]>>
                ELSE <<[msg |-> "previously_submitted_with",
                        collaborators |->
                            collaborator_names(subs[1].submitters, profile)]>>,
            students |-> <<profile>>]
      ELSE IF Len(subs) = 0 /\ detect_submissions(profile, group)
      THEN [ok |-> FALSE,
            warnings |-> <<[msg |-> "already_submitted_in_different_group",
                            collaborators |->
                                collaborator_names(student_groups[group], profile)]>>,
            students |-> <<profile>>]
      ELSE final_checks(IF group # 0 THEN student_groups[group] ELSE <<profile>>)

\* str(w) of each warning: the messages are kept as they are
is_submission_allowed(profile, request) == check_submission_allowed(profile, request)

\* ------------------------------------------------------- ContentCache
\* settings.LANGUAGES, the codes in configured order
LANGUAGES == <<"en", "fi">>

\* ExerciseCache.KEY_PREFIX
KEY_PREFIX == "exercise"

\* learning objects by pk: 1 is a chapter, 2 is a child of 1
LearningObjectIds == {1, 2}

\* cls.__bases__[0] of every class under LearningObject; object has no bases
first_base ==
    [LearningObject |-> "UrlMixin", UrlMixin |-> "object",
     CourseChapter |-> "LearningObject", BaseExercise |-> "LearningObject",
     LTIExercise |-> "BaseExercise", StaticExercise |-> "BaseExercise",
     ExerciseWithAttachment |-> "BaseExercise"]

LearningObjectClasses == DOMAIN first_base \ {"UrlMixin"}

\* ",".join(parts)
RECURSIVE join(_, _)
join(sep, parts) ==
    IF parts = <<>> THEN ""
    ELSE IF Len(parts) = 1 THEN parts[1]
    ELSE parts[1] \o sep \o join(sep, Tail(parts))

\* CachedAbstract._key: models are given by pk
cache_key(models, modifiers) ==
    KEY_PREFIX \o ":" \o
        join(",", [i \in DOMAIN models |-> ToString(models[i])] \o modifiers)

\* the cache backend: get answers None for an absent key
cache_get(c, k) == IF k \in DOMAIN c THEN c[k] ELSE None

cache_set(c, k, v) == [x \in DOMAIN c \cup {k} |-> IF x = k THEN v ELSE c[x]]

cache_delete(c, k) == [x \in DOMAIN c \ {k} |-> c[x]]

EmptyCache == [k \in {} |-> None]

\* nothing is deleted
invalidate_nothing(c, models, modifiers) == c

\* CachedAbstract.invalidate
invalidate(c, models, modifiers) == cache_delete(c, cache_key(models, modifiers))

\* invalidate_exercise: the calls of ExerciseCache.invalidate it makes, one per
\* configured language, in order
invalidate_exercise(instance) ==
    [i \in DOMAIN LANGUAGES |->
        [models |-> <<instance>>, modifiers |-> <<LANGUAGES[i]>>]]

\* _clear_cache: the call it makes for the parent; parent is 0 for None
clear_cache(instance) ==
    IF learning_objects[instance].parent # 0
    THEN <<[models |-> <<learning_objects[instance].parent>>, modifiers |-> <<>>]>>
    ELSE <<>>

\* the walk of LearningObject.save / delete up the first bases: how often the
\* signal is sent with sender LearningObject
RECURSIVE signals_sent(_)
signals_sent(cls) ==
    IF cls \notin DOMAIN first_base THEN 0
    ELSE (IF first_base[cls] = "LearningObject" THEN 1 ELSE 0)
            + signals_sent(first_base[cls])

\* super().save() / super().delete() send the signal with the object's own class
receivers_run(cls) ==
    (IF cls = "LearningObject" THEN 1 ELSE 0) + signals_sent(cls) > 0

\* a cached payload is generated again
needs_generation_always(data) == TRUE

\* CachedAbstract._needs_generation
needs_generation(data) == data = None

\* the generated payload is stored whether dirty or not
store_generated_even_if_dirty(c, k, data, dirty) ==
    [cache |-> cache_set(c, k, data), wrote |-> TRUE]

\* CachedAbstract.__init__ after the generation: cache.set unless dirty
store_generated(c, k, data, dirty) ==
    IF ~dirty
    THEN [cache |-> cache_set(c, k, data), wrote |-> TRUE]
    ELSE [cache |-> c, wrote |-> FALSE]

\* the classes whose load() goes through ExerciseCache: StaticExercise and
\* ExerciseWithAttachment render their own fields, LTIExercise uses the cache
\* when aplus_get_and_post is set
loads_through_cache(cls) ==
    cls \in {"LearningObject", "CourseChapter", "BaseExercise", "LTIExercise"}

\* the key ExerciseCache looks up for LearningObject.load
lookup_key(l) == cache_key(<<l.obj>>, <<l.language>>)

Workers == {1, 2}

IdleLookup == [pc |-> "idle"]

\* no key has been set yet
NothingWritten == [k \in {} |-> {}]

\* the payloads set under key k since it was last deleted
written_under(k) == IF k \in DOMAIN written THEN written[k] ELSE {}

\* the eligibility checks leave the content cache alone
ContentAtRest ==
    /\ learning_objects =
          [o \in LearningObjectIds |->
              [cls |-> "BaseExercise", parent |-> 0, version |-> 0,
               exists |-> o = 1]]
    /\ cache = EmptyCache
    /\ lookup = [w \in Workers |-> IdleLookup]
    /\ written = NothingWritten

\* ------------------------------------------------------------ input sets
Schedules ==
    {[opening_time |-> o, closing_time |-> c,
      late_submission_deadline |-> l, late_submissions_allowed |-> a,
      late_submission_penalty |-> 50] :
        o \in Times, c \in Times, l \in Times, a \in BOOLEAN}

Deviations ==
    [submitter : DeviationStudents, extra_minutes : 0..MaxExtra,
     without_late_penalty : BOOLEAN]

\* stored rows are unique per (exercise, submitter)
DeviationSets ==
    {s \in SeqsUpTo(Deviations, Cardinality(DeviationStudents)) :
        \A i, j \in DOMAIN s : i # j => s[i].submitter # s[j].submitter}

Categories == [confirm_the_level : BOOLEAN, accept_unofficial_submits : BOOLEAN]

Idle == [op |-> "idle"]

\* field defaults of the models (exercise_models.py 80-81, 303-305)
DefaultExercise ==
    [status |-> "ready", min_group_size |-> 1, max_group_size |-> 1,
     max_submissions |-> 10]

\* a course instance without archive time where every student is enrolled,
\* nobody is staff and nobody has selected a group
DefaultInstance ==
    [archive_time |-> NoTime, course_staff |-> {}, enrolled |-> Students,
     enrollable |-> Students, selected_group |-> [s \in Students |-> 0]]

\* --------------------------------------------- specification: get_timing
InitTiming ==
    /\ course_module \in
          {m \in Schedules :
              /\ m.opening_time <= m.closing_time
              /\ m.closing_time <= m.late_submission_deadline
              /\ (~m.late_submissions_allowed
                     => m.late_submission_deadline = m.closing_time)}
    /\ course_instance \in
          {[DefaultInstance EXCEPT !.archive_time = t] : t \in {NoTime} \cup Times}
    /\ category \in Categories
    /\ deadlineruledeviation_set \in DeviationSets
    /\ now \in Times
    /\ exercise = DefaultExercise
    /\ maxsubmissionsruledeviation_set = <<>>
    /\ submissions = <<>>
    /\ call = Idle
    /\ ContentAtRest

\* the caller takes the answer; the next call can start
Return ==
    /\ call # Idle
    /\ call' = Idle
    /\ UNCHANGED <<config, submissions, now, cachestate>>

GetTiming ==
    \E students \in StudentLists :
        /\ call = Idle
        /\ call' = [op |-> "get_timing", students |-> students, when |-> now,
                    result |-> get_timing(students, now)]
        /\ UNCHANGED <<config, submissions, now, cachestate>>

NextTiming == GetTiming \/ Return

SpecTiming == InitTiming /\ [][NextTiming]_vars

\* ------------------------------------------------------ the attempt
\* the texts posted as _aplus_group, by code points: "0", "1", "2", "3", "x",
\* form feed FULLWIDTH DIGIT ZERO "1" space (which is 1), "-1_0" (which is -10)
GroupIdTexts ==
    {<<48>>, <<49>>, <<50>>, <<51>>, <<120>>,
     <<12, 65296, 49, 32>>, <<45, 49, 95, 48>>}

Requests ==
    {None} \cup {[aplus_group |-> <<>>]}
           \cup {[aplus_group |-> <<v>>] : v \in GroupIdTexts}

\* a submission attempt: the view asks whether it is allowed
IsSubmissionAllowed ==
    \E profile \in Students, request \in Requests :
        /\ call = Idle
        /\ call' = [op |-> "is_submission_allowed", profile |-> profile,
                    request |-> request,
                    result |-> is_submission_allowed(profile, request)]
        /\ UNCHANGED <<config, submissions, now, cachestate>>

\* ------------------------------------------------- specification: quota
\* sorted member lists, as submitters.all() returns them
SubmitterSets == {<<1>>, <<2>>, <<1, 2>>}

Submissions == [submitters : SubmitterSets, error : BOOLEAN]

QuotaDeviations ==
    [submitter : DeviationStudents, extra_submissions : 0..MaxExtraSubs]

QuotaDeviationSets ==
    {s \in SeqsUpTo(QuotaDeviations, Cardinality(DeviationStudents)) :
        \A i, j \in DOMAIN s : i # j => s[i].submitter # s[j].submitter}

InitQuota ==
    /\ exercise \in
          {[DefaultExercise EXCEPT !.max_submissions = m] : m \in 0..MaxSubmissions}
    /\ maxsubmissionsruledeviation_set \in QuotaDeviationSets
    /\ submissions \in SeqsUpTo(Submissions, MaxHistory)
    /\ course_module = [opening_time |-> 0, closing_time |-> 0,
                        late_submission_deadline |-> 0,
                        late_submissions_allowed |-> FALSE,
                        late_submission_penalty |-> 50]
    /\ course_instance = DefaultInstance
    /\ category = [confirm_the_level |-> FALSE, accept_unofficial_submits |-> FALSE]
    /\ deadlineruledeviation_set = <<>>
    /\ now = 0
    /\ call = Idle
    /\ ContentAtRest

OneHasSubmissions ==
    \E students \in StudentLists :
        /\ call = Idle
        /\ call' = [op |-> "one_has_submissions", students |-> students,
                    result |-> one_has_submissions(students)]
        /\ UNCHANGED <<config, submissions, now, cachestate>>

NoSubmissionsLeft ==
    \E students \in StudentLists :
        /\ call = Idle
        /\ call' = [op |-> "no_submissions_left", students |-> students,
                    result |-> no_submissions_left(students)]
        /\ UNCHANGED <<config, submissions, now, cachestate>>

NextQuota ==
    OneHasSubmissions \/ NoSubmissionsLeft \/ IsSubmissionAllowed \/ Return

SpecQuota == InitQuota /\ [][NextQuota]_vars

\* ------------------------------------- specification: submission attempts
GroupSizes == {<<1, 1>>, <<1, 2>>, <<2, 2>>}

InitEval ==
    /\ exercise \in
          {[DefaultExercise EXCEPT !.min_group_size = g[1], !.max_group_size = g[2],
                                   !.max_submissions = m] :
              g \in GroupSizes, m \in 0..MaxSubmissions}
    /\ course_module \in
          {[opening_time |-> 1, closing_time |-> 2, late_submission_deadline |-> 3,
            late_submissions_allowed |-> a, late_submission_penalty |-> 50] :
              a \in BOOLEAN}
    /\ course_instance =
          [DefaultInstance EXCEPT !.course_staff = {3}, !.selected_group[1] = 1]
    /\ category \in
          {[confirm_the_level |-> FALSE, accept_unofficial_submits |-> u] :
              u \in BOOLEAN}
    /\ deadlineruledeviation_set \in
          {<<>>, <<[submitter |-> 2, extra_minutes |-> 1,
                    without_late_penalty |-> FALSE]>>}
    /\ maxsubmissionsruledeviation_set =
          <<[submitter |-> 1, extra_submissions |-> 1]>>
    /\ submissions = <<>>
    /\ now \in Times
    /\ call = Idle
    /\ ContentAtRest

\* an allowed attempt is stored, credited to the returned submitters
Submit ==
    /\ call.op = "is_submission_allowed"
    /\ call.result.ok
    /\ Len(submissions) < MaxHistory
    /\ \E error \in BOOLEAN :
          submissions' = Append(submissions,
              [submitters |-> call.result.students, error |-> error])
    /\ call' = Idle
    /\ UNCHANGED <<config, now, cachestate>>

NextEval == IsSubmissionAllowed \/ Submit \/ Return

SpecEval == InitEval /\ [][NextEval]_vars

\* ------------------------------------------ specification: enrollment step
StaffSets == {{}, {3}, {1, 3}}

EnrolledSets == {Students, {1}, {3}, {}}

EnrollableSets == {Students, {2}, {}}

InitEnroll ==
    /\ exercise \in
          {[DefaultExercise EXCEPT !.status = s, !.max_submissions = 1] :
              s \in STATUS}
    /\ course_module = [opening_time |-> 1, closing_time |-> 2,
                        late_submission_deadline |-> 3,
                        late_submissions_allowed |-> FALSE,
                        late_submission_penalty |-> 50]
    /\ course_instance \in
          {[DefaultInstance EXCEPT !.course_staff = st, !.enrolled = en,
                                   !.enrollable = ea, !.selected_group[1] = 1] :
              st \in StaffSets, en \in EnrolledSets, ea \in EnrollableSets}
    /\ category = [confirm_the_level |-> FALSE, accept_unofficial_submits |-> FALSE]
    /\ deadlineruledeviation_set = <<>>
    /\ maxsubmissionsruledeviation_set = <<>>
    /\ submissions \in SeqsUpTo(Submissions, 1)
    /\ now \in Times
    /\ call = Idle
    /\ ContentAtRest

NextEnroll == IsSubmissionAllowed \/ Return

SpecEnroll == InitEnroll /\ [][NextEnroll]_vars

\* ------------------------------------ specification: deviation resolver
\* any stored rows, several per student included
InitDeviation ==
    /\ deadlineruledeviation_set \in SeqsUpTo(Deviations, MaxRows)
    /\ exercise = DefaultExercise
    /\ course_module = [opening_time |-> 0, closing_time |-> 1,
                        late_submission_deadline |-> 1,
                        late_submissions_allowed |-> FALSE,
                        late_submission_penalty |-> 50]
    /\ course_instance = DefaultInstance
    /\ category = [confirm_the_level |-> FALSE, accept_unofficial_submits |-> FALSE]
    /\ maxsubmissionsruledeviation_set = <<>>
    /\ submissions = <<>>
    /\ now = 0
    /\ call = Idle
    /\ ContentAtRest

OneHasDeadlineDeviation ==
    \E students \in StudentLists :
        /\ call = Idle
        /\ call' = [op |-> "one_has_deadline_deviation", students |-> students,
                    result |-> one_has_deadline_deviation(students)]
        /\ UNCHANGED <<config, submissions, now, cachestate>>

NextDeviation == OneHasDeadlineDeviation \/ Return

SpecDeviation == InitDeviation /\ [][NextDeviation]_vars

\* ------------------------------------------- specification: access check
\* the module opens at 1; student 2 may have a deadline deviation; student 3 is
\* course staff and student 1 has selected the group of students 1 and 2
InitAccess ==
    /\ course_module \in
          {m \in Schedules :
              /\ m.opening_time = 1
              /\ m.opening_time <= m.closing_time
              /\ m.closing_time <= m.late_submission_deadline
              /\ (~m.late_submissions_allowed
                     => m.late_submission_deadline = m.closing_time)}
    /\ course_instance \in
          {[DefaultInstance EXCEPT !.archive_time = t, !.course_staff = {3},
                                   !.selected_group[1] = 1] :
              t \in {NoTime} \cup Times}
    /\ category \in Categories
    /\ deadlineruledeviation_set \in
          {s \in DeviationSets : \A i \in DOMAIN s : s[i].submitter = 2}
    /\ exercise \in
          {[DefaultExercise EXCEPT !.max_group_size = g, !.max_submissions = 0] :
              g \in {1, 2}}
    /\ maxsubmissionsruledeviation_set = <<>>
    /\ submissions = <<>>
    /\ now \in Times
    /\ call = Idle
    /\ ContentAtRest

OneHasAccess ==
    \E students \in StudentLists :
        /\ call = Idle
        /\ call' = [op |-> "one_has_access", students |-> students,
                    result |-> one_has_access(students, NoTime)]
        /\ UNCHANGED <<config, submissions, now, cachestate>>

NextAccess == OneHasAccess \/ IsSubmissionAllowed \/ Return

SpecAccess == InitAccess /\ [][NextAccess]_vars

\* ------------------------------------------ specification: content cache
\* the eligibility data is left at fixed values
EligibilityAtRest ==
    /\ exercise = DefaultExercise
    /\ course_module = [opening_time |-> 0, closing_time |-> 0,
                        late_submission_deadline |-> 0,
                        late_submissions_allowed |-> FALSE,
                        late_submission_penalty |-> 50]
    /\ course_instance = DefaultInstance
    /\ category = [confirm_the_level |-> FALSE, accept_unofficial_submits |-> FALSE]
    /\ deadlineruledeviation_set = <<>>
    /\ maxsubmissionsruledeviation_set = <<>>
    /\ submissions = <<>>
    /\ now = 0

\* a worker process that is not running
Off == [pc |-> "off"]

\* one learning object of class c without parent; row 2 is not created
LoneObject(c) ==
    [o \in LearningObjectIds |->
        [cls |-> c, parent |-> 0, version |-> 0, exists |-> o = 1]]

\* chapter 1 and its child 2
ChapterAndChild ==
    [o \in LearningObjectIds |->
        [cls |-> IF o = 1 THEN "CourseChapter" ELSE "BaseExercise",
         parent |-> IF o = 1 THEN 0 ELSE 1, version |-> 0, exists |-> TRUE]]

\* an object of a class whose load goes through the cache served by all
\* workers, or an object of any other class or a chapter with a child served by
\* one worker
InitCache ==
    /\ EligibilityAtRest
    /\ call = Idle
    /\ cache = EmptyCache
    /\ written = NothingWritten
    /\ \/ /\ learning_objects = LoneObject("BaseExercise")
          /\ lookup = [w \in Workers |-> IdleLookup]
       \/ /\ learning_objects \in
                {LoneObject(c) : c \in LearningObjectClasses \ {"BaseExercise"}}
          /\ lookup = [w \in Workers |-> IF w = 1 THEN IdleLookup ELSE Off]
       \/ /\ learning_objects = ChapterAndChild
          /\ lookup = [w \in Workers |-> IF w = 1 THEN IdleLookup ELSE Off]

\* a save or a delete whose receivers have not all run
InProgress == {"saving", "deleting"}

\* what the last cache.delete of an invalidation removed, if it removed an entry
\* and no step of a request came after it
last_invalidation ==
    IF call.op \in InProgress \cup {"save", "delete", "invalidate"}
    THEN call.last ELSE None

\* a step of a request ends the record of the last invalidation and of a call
\* that has returned
after_lookup_step(c) ==
    IF c.op \in InProgress THEN [c EXCEPT !.last = None] ELSE Idle

\* the newest version of the row whose invalidation has completed: the row's
\* version, or the one before it while receivers of its save have calls to make
invalidated_version(o) ==
    IF call.op = "saving" /\ call.obj = o /\ call.pending # <<>>
    THEN learning_objects[o].version - 1
    ELSE learning_objects[o].version

\* the request fetches the row: load() and the generator work on this instance
Fetch ==
    \E w \in Workers, o \in LearningObjectIds :
        /\ lookup[w].pc = "idle"
        /\ learning_objects[o].exists
        /\ loads_through_cache(learning_objects[o].cls)
        /\ lookup' = [lookup EXCEPT ![w] =
               [pc |-> "loaded", obj |-> o, instance |-> learning_objects[o]]]
        /\ call' = after_lookup_step(call)
        /\ UNCHANGED <<config, submissions, now, learning_objects, cache, written>>

\* CachedAbstract.__init__, first step: the key is built from the instance and
\* the cache is read
Get ==
    \E w \in Workers, language \in Range(LANGUAGES) :
        /\ lookup[w].pc = "loaded"
        /\ LET o == lookup[w].obj
               k == cache_key(<<o>>, <<language>>)
               data == cache_get(cache, k)
               started ==
                   [language |-> language, found |-> data,
                    started_at |-> invalidated_version(o),
                    written_before |-> written_under(k),
                    invalidated |->
                        IF /\ last_invalidation # None
                           /\ last_invalidation.key = k
                        THEN last_invalidation.removed ELSE None]
           IN lookup' = [lookup EXCEPT ![w] =
                  IF needs_generation(data)
                  THEN [pc |-> "generating"] @@ started @@ lookup[w]
                  ELSE [pc |-> "done", data |-> data, dirty |-> FALSE,
                        generated |-> FALSE, wrote |-> FALSE,
                        changed |-> FALSE, overwrote |-> FALSE]
                           @@ started @@ lookup[w]]
        /\ call' = after_lookup_step(call)
        /\ UNCHANGED <<config, submissions, now, learning_objects, cache, written>>

\* second step: the generator runs on the instance the request fetched; a fetch
\* failure yields fallback content and sets the dirty mark
Generate ==
    \E w \in Workers, failed \in BOOLEAN :
        /\ lookup[w].pc = "generating"
        /\ lookup' = [lookup EXCEPT ![w] =
               [pc |-> "generated", dirty |-> failed,
                data |-> [version |-> lookup[w].instance.version,
                          fallback |-> failed]] @@ lookup[w]]
        /\ call' = after_lookup_step(call)
        /\ UNCHANGED <<config, submissions, now, learning_objects, cache, written>>

\* third step: the payload is stored unless dirty, and becomes self.data
Store ==
    \E w \in Workers :
        /\ lookup[w].pc = "generated"
        /\ LET k == lookup_key(lookup[w])
               stored == store_generated(cache, k, lookup[w].data, lookup[w].dirty)
           IN /\ cache' = stored.cache
              /\ lookup' = [lookup EXCEPT ![w] =
                     [pc |-> "done", generated |-> TRUE, wrote |-> stored.wrote,
                      changed |-> stored.cache # cache,
                      overwrote |-> stored.wrote /\ k \in DOMAIN cache]
                         @@ lookup[w]]
              /\ written' =
                     IF stored.wrote
                     THEN [x \in DOMAIN written \cup {k} |->
                              IF x = k THEN written_under(k) \cup {lookup[w].data}
                              ELSE written[x]]
                     ELSE written
        /\ call' = after_lookup_step(call)
        /\ UNCHANGED <<config, submissions, now, learning_objects>>

\* LearningObject.load hands the page to the view; the request is over
Load ==
    \E w \in Workers :
        /\ lookup[w].pc = "done"
        /\ lookup' = [lookup EXCEPT ![w] = IdleLookup]
        /\ call' = after_lookup_step(call)
        /\ UNCHANGED <<config, submissions, now, learning_objects, cache, written>>

\* the calls of ExerciseCache.invalidate made by the receivers of post_save, in
\* the order the receivers are connected
after_save(instance) ==
    IF receivers_run(learning_objects[instance].cls)
    THEN invalidate_exercise(instance) \o clear_cache(instance)
    ELSE <<>>

\* the calls made by the receiver of post_delete
after_delete(instance) ==
    IF receivers_run(learning_objects[instance].cls)
    THEN invalidate_exercise(instance)
    ELSE <<>>

\* every save raises the version of its row by one
RECURSIVE sum_of_versions(_)
sum_of_versions(ids) ==
    IF ids = {} THEN 0
    ELSE LET o == CHOOSE x \in ids : TRUE
         IN learning_objects[o].version + sum_of_versions(ids \ {o})

saves_made == sum_of_versions(LearningObjectIds)

\* LearningObject.save up to super().save(): the row is written; the signal and
\* its receivers follow
Save ==
    \E o \in LearningObjectIds :
        /\ call.op \notin InProgress
        /\ learning_objects[o].exists
        /\ saves_made < MaxVersion
        /\ learning_objects' =
               [learning_objects EXCEPT ![o].version = @ + 1]
        /\ call' = [op |-> "saving", obj |-> o, pending |-> after_save(o),
                    last |-> None]
        /\ UNCHANGED <<config, submissions, now, cache, lookup, written>>

\* LearningObject.delete up to super().delete(): the row is deleted and the
\* parent of its children set to null (on_delete=SET_NULL); the signal and its
\* receiver follow
Delete ==
    \E o \in LearningObjectIds :
        /\ call.op \notin InProgress
        /\ learning_objects[o].exists
        /\ learning_objects' =
               [x \in LearningObjectIds |->
                   IF x = o THEN [learning_objects[x] EXCEPT !.exists = FALSE]
                   ELSE IF learning_objects[x].parent = o
                   THEN [learning_objects[x] EXCEPT !.parent = 0]
                   ELSE learning_objects[x]]
        /\ call' = [op |-> "deleting", obj |-> o, pending |-> after_delete(o),
                    last |-> None]
        /\ UNCHANGED <<config, submissions, now, cache, lookup, written>>

\* what one cache.delete of an invalidation removes: the key, the payload and
\* the cache before it; None when the key was absent
deleted_by(models, modifiers) ==
    IF cache_key(models, modifiers) \in DOMAIN cache
    THEN [key |-> cache_key(models, modifiers),
          removed |-> cache[cache_key(models, modifiers)],
          before |-> cache]
    ELSE None

\* a receiver makes its next call of ExerciseCache.invalidate: one cache.delete
Receive ==
    /\ call.op \in InProgress
    /\ call.pending # <<>>
    /\ LET next == Head(call.pending)
       IN /\ cache' = invalidate(cache, next.models, next.modifiers)
          /\ call' = [call EXCEPT !.pending = Tail(call.pending),
                                  !.last = deleted_by(next.models, next.modifiers)]
    /\ written' = [k \in DOMAIN written \cap DOMAIN cache' |-> written[k]]
    /\ UNCHANGED <<config, submissions, now, learning_objects, lookup>>

\* the receivers are through: save() or delete() returns to its caller
Finish ==
    /\ call.op \in InProgress
    /\ call.pending = <<>>
    /\ call' = [op |-> IF call.op = "saving" THEN "save" ELSE "delete",
                obj |-> call.obj, last |-> call.last]
    /\ UNCHANGED <<config, submissions, now, cachestate>>

\* ExerciseCache.invalidate called on its own, without a row being written; a
\* call for an absent key leaves everything as it is
Invalidate ==
    \E o \in LearningObjectIds,
       modifiers \in {<<>>} \cup {<<LANGUAGES[i]>> : i \in DOMAIN LANGUAGES} :
        /\ call.op \notin InProgress
        /\ cache' = invalidate(cache, <<o>>, modifiers)
        /\ call' = IF cache_key(<<o>>, modifiers) \in DOMAIN cache
                   THEN [op |-> "invalidate",
                         last |-> deleted_by(<<o>>, modifiers)]
                   ELSE call
        /\ written' = [k \in DOMAIN written \cap DOMAIN cache' |-> written[k]]
        /\ UNCHANGED <<config, submissions, now, learning_objects, lookup>>

NextCache ==
    \/ Fetch \/ Get \/ Generate \/ Store \/ Load
    \/ Save \/ Delete \/ Receive \/ Finish \/ Invalidate

SpecCache == InitCache /\ [][NextCache]_vars

\* ================================================================ claims
HasMsg(warnings, msgs) == \E i \in DOMAIN warnings : warnings[i].msg \in msgs

EarlyMsgs ==
    {"cannot_enroll", "must_enroll", "previously_submitted_alone",
     "previously_submitted_with", "already_submitted_in_different_group"}

QuotaMsgs == {"submissions_used", "submissions_used_unofficial_only"}

LockMsgs == {"previously_submitted_alone", "previously_submitted_with"}

\* the attempt got as far as the checks on the resolved submitters
ReachedFinalChecks ==
    call.op = "is_submission_allowed" /\ ~HasMsg(call.result.warnings, EarlyMsgs)

NonErrorCount(p) == Len(get_submissions_for_student(p, TRUE))

\* a deviation of one of the students moves the deadline past the closing time
SomeDeviationExtends(students) ==
    \E i \in DOMAIN deadlineruledeviation_set :
        /\ deadlineruledeviation_set[i].submitter \in Range(students)
        /\ get_new_deadline(deadlineruledeviation_set[i]) > course_module.closing_time

\* C1: after the closing time and with the course not archived, a selected
\* deviation that waives the late penalty and whose new deadline is not earlier
\* than the instant makes get_timing return OPEN with the deviation's deadline.
C1_OpenUntilDeviationDeadline ==
    call.op = "get_timing" =>
        LET deviation == one_has_deadline_deviation(call.students)
        IN (/\ call.when > course_module.closing_time
            /\ ~is_archived(call.when)
            /\ deviation # None
            /\ deviation.without_late_penalty
            /\ get_new_deadline(deviation) >= call.when)
           => call.result = [timing |-> "OPEN", dl |-> get_new_deadline(deviation)]

\* C2 as claimed: when a submitter's deviation extends the deadline past the
\* closing time, get_timing never returns a deadline before the closing time,
\* in whichever state.
C2_DeadlineNeverBeforeClosing ==
    (call.op = "get_timing" /\ SomeDeviationExtends(call.students))
        => call.result.dl >= course_module.closing_time

\* C2 as amended: when a submitter's deviation extends the deadline past the
\* closing time and get_timing returns OPEN, LATE, UNOFFICIAL or CLOSED_AFTER,
\* the returned deadline is not before the closing time.
C2_DeadlineNotBeforeClosingOnceOpen ==
    (/\ call.op = "get_timing"
     /\ SomeDeviationExtends(call.students)
     /\ call.result.timing \in {"OPEN", "LATE", "UNOFFICIAL", "CLOSED_AFTER"})
        => call.result.dl >= course_module.closing_time

C2_Witness ==
    /\ call.op = "get_timing"
    /\ SomeDeviationExtends(call.students)
    /\ call.result.timing = "CLOSED_AFTER"
    /\ call.result.dl > course_module.closing_time
    /\ call.result.dl < call.when

\* C3: when get_timing returns OPEN because the module is open or the category
\* is confirm-the-level, and the submitters' deviation waives the late penalty
\* and its new deadline is still in the future, the returned deadline is the
\* deviation's new deadline.
C3_OpenDeadlineIsDeviationDeadline ==
    call.op = "get_timing" =>
        LET deviation == one_has_deadline_deviation(call.students)
        IN (/\ is_after_open(call.when)
            /\ (is_open(call.when) \/ category.confirm_the_level)
            /\ call.result.timing = "OPEN"
            /\ deviation # None
            /\ deviation.without_late_penalty
            /\ get_new_deadline(deviation) > call.when)
           => call.result.dl = get_new_deadline(deviation)

\* C4: whenever the course instance has an archive time and is archived at the
\* instant, get_timing returns ARCHIVED with the archive time.
C4_ArchivedOverridesOpen ==
    (call.op = "get_timing" /\ is_archived(call.when))
        => call.result =
              [timing |-> "ARCHIVED", dl |-> course_instance.archive_time]

\* C5: with max_submissions > 0, if every submitter's non-error submissions have
\* reached that submitter's maximum, no_submissions_left returns true.
C5_NoSubmissionsLeftAtMaximum ==
    (/\ call.op = "no_submissions_left"
     /\ exercise.max_submissions > 0
     /\ \A p \in Range(call.students) :
            NonErrorCount(p) >= max_submissions_for_student(p))
        => call.result

\* C7: on an unlimited exercise (max_submissions = 0) one_has_submissions is
\* true, no_submissions_left is false and an attempt gets no quota warning,
\* whatever the submitters, the stored submissions and the quota deviations.
C7_UnlimitedQuota ==
    exercise.max_submissions = 0 =>
        /\ call.op = "one_has_submissions" => call.result
        /\ call.op = "no_submissions_left" => ~call.result
        /\ call.op = "is_submission_allowed"
               => ~HasMsg(call.result.warnings, QuotaMsgs)

C7_Witness ==
    /\ exercise.max_submissions = 0
    /\ call.op = "one_has_submissions"
    /\ call.result
    /\ \A p \in Range(call.students) : NonErrorCount(p) = MaxHistory
    /\ maxsubmissionsruledeviation_set # <<>>

\* the requested configuration of the attempt in call: the resolved group (0 for
\* none) and its member set, the requester alone when no group is selected
RequestedGroup ==
    selected_group_for(call.profile, call.request, get_enrollment_for(call.profile))

RequestedMembers ==
    IF RequestedGroup # 0 THEN Range(student_groups[RequestedGroup])
    ELSE {call.profile}

PriorSubmissions == get_submissions_for_student(call.profile, FALSE)

AllStaff(students) == \A p \in Range(students) : is_course_staff(p)

\* C6: when the quota of the submitters is used up and not all of them are
\* course staff, the quota warning blocks exactly when the module disallows late
\* submissions: then the attempt is denied and the quota message listed; with
\* late submissions allowed the quota message is listed too, and the verdict is
\* (timing allows submitting and no group-size warning).
C6_QuotaBlocksUnlessLateAllowed ==
    (/\ ReachedFinalChecks
     /\ ~one_has_submissions(call.result.students)
     /\ ~AllStaff(call.result.students))
        => IF course_module.late_submissions_allowed
           THEN /\ HasMsg(call.result.warnings, {"submissions_used_unofficial_only"})
                /\ ~HasMsg(call.result.warnings, {"submissions_used"})
                /\ call.result.ok =
                      (/\ one_has_access(call.result.students, NoTime).ok
                       /\ ~HasMsg(call.result.warnings, {"group_size"}))
           ELSE /\ ~call.result.ok
                /\ HasMsg(call.result.warnings, {"submissions_used"})

C6_Witness ==
    /\ ReachedFinalChecks
    /\ ~one_has_submissions(call.result.students)
    /\ ~AllStaff(call.result.students)
    /\ course_module.late_submissions_allowed
    /\ call.result.ok
    /\ HasMsg(call.result.warnings, {"submissions_used_unofficial_only"})
    /\ Len(call.result.students) = 2

\* C8 as claimed: with max_submissions > 0 an attempt gets no quota warning only
\* if every submitter has a submission left; if any submitter has none left the
\* quota warning is added.
C8_EverySubmitterNeedsQuota ==
    (ReachedFinalChecks /\ exercise.max_submissions > 0)
        => (~HasMsg(call.result.warnings, QuotaMsgs)
              <=> \A p \in Range(call.result.students) :
                      NonErrorCount(p) < max_submissions_for_student(p))

\* C8 as amended: with max_submissions > 0 an attempt gets no quota warning if
\* and only if at least one submitter has a submission left; the quota warning
\* is added only when every submitter has none left.
C8_OneSubmitterWithQuotaSuffices ==
    (ReachedFinalChecks /\ exercise.max_submissions > 0)
        => (~HasMsg(call.result.warnings, QuotaMsgs)
              <=> \E p \in Range(call.result.students) :
                      NonErrorCount(p) < max_submissions_for_student(p))

C8_Witness ==
    /\ ReachedFinalChecks
    /\ exercise.max_submissions > 0
    /\ ~HasMsg(call.result.warnings, QuotaMsgs)
    /\ \E p \in Range(call.result.students) :
           NonErrorCount(p) >= max_submissions_for_student(p)
    /\ \E p \in Range(call.result.students) :
           NonErrorCount(p) < max_submissions_for_student(p)

\* C9: a requester with an earlier submission is rejected on the group-change
\* lock exactly when the requested members differ, as a set, from the submitters
\* of the requester's first submission; the rejection returns allowed = false,
\* submitters = [requester] and the one warning that says "alone" for a single
\* prior submitter and names the prior collaborators otherwise.
C9_GroupChangeLock ==
    (call.op = "is_submission_allowed" /\ Len(PriorSubmissions) > 0)
        => LET prior == Range(PriorSubmissions[1].submitters)
               locked == HasMsg(call.result.warnings, LockMsgs)
           IN /\ locked <=> (RequestedMembers # prior)
              /\ locked =>
                    /\ ~call.result.ok
                    /\ call.result.students = <<call.profile>>
                    /\ call.result.warnings =
                          IF Cardinality(prior) = 1
                          THEN <<[msg |-> "previously_submitted_alone"]>>
                          ELSE <<[msg |-> "previously_submitted_with",
                                  collaborators |-> prior \ {call.profile}]>>

C9_Witness ==
    /\ call.op = "is_submission_allowed"
    /\ Len(PriorSubmissions) > 0
    /\ Cardinality(Range(PriorSubmissions[1].submitters)) = 2
    /\ RequestedGroup # 0
    /\ call.result.warnings =
          <<[msg |-> "previously_submitted_with",
             collaborators |->
                 Range(PriorSubmissions[1].submitters) \ {call.profile}]>>

\* C10: a requester without an earlier submission is rejected as a cross-group
\* duplicate exactly when a group is selected and some other member of it has a
\* submission; the rejection returns allowed = false, submitters = [requester]
\* and the one warning naming the group's other members.
C10_CrossGroupDuplicate ==
    (call.op = "is_submission_allowed" /\ Len(PriorSubmissions) = 0)
        => LET duplicate ==
                   HasMsg(call.result.warnings,
                          {"already_submitted_in_different_group"})
               others == RequestedMembers \ {call.profile}
           IN /\ duplicate <=>
                    (/\ RequestedGroup # 0
                     /\ \E p \in others :
                            Len(get_submissions_for_student(p, FALSE)) > 0)
              /\ duplicate =>
                    /\ ~call.result.ok
                    /\ call.result.students = <<call.profile>>
                    /\ call.result.warnings =
                          <<[msg |-> "already_submitted_in_different_group",
                             collaborators |-> others]>>

C10_Witness ==
    /\ call.op = "is_submission_allowed"
    /\ Len(PriorSubmissions) = 0
    /\ RequestedGroup # 0
    /\ HasMsg(call.result.warnings, {"already_submitted_in_different_group"})
    /\ \E i \in DOMAIN submissions : submissions[i].error

\* the attempt in call was not turned away at the enrollment step
PassedEnrollment ==
    /\ call.op = "is_submission_allowed"
    /\ ~HasMsg(call.result.warnings, {"cannot_enroll", "must_enroll"})

BlockingMsgs ==
    LockMsgs \cup {"already_submitted_in_different_group", "group_size",
                   "submissions_used"}

\* C11: for a requester who passes the enrollment step the attempt is allowed
\* if and only if (the timing permits submitting and no blocking warning of the
\* group-change lock, the cross-group duplicate check, the group-size check or
\* the fatal quota check was raised) or every submitter is course staff.
C11_StaffOverride ==
    PassedEnrollment =>
        (call.result.ok <=>
            \/ /\ one_has_access(call.result.students, NoTime).ok
               /\ ~HasMsg(call.result.warnings, BlockingMsgs)
            \/ AllStaff(call.result.students))

\* C12: on an enrollment or enrollment-external exercise a requester who is not
\* enrollable is denied with the single "cannot enroll" warning, course staff
\* included; on any other status a requester without an enrollment gets
\* allowed = (requester is course staff), the single "must enroll" warning and
\* submitters = [requester], whatever the timing, the group and the quota.
C12_EnrollmentStep ==
    call.op = "is_submission_allowed" =>
        LET enrollment_exercise ==
                exercise.status \in {"enrollment", "enrollment_ext"}
        IN /\ (enrollment_exercise /\ ~is_enrollable(call.profile))
                  => call.result =
                        [ok |-> FALSE, warnings |-> <<[msg |-> "cannot_enroll"]>>,
                         students |-> <<call.profile>>]
           /\ (~enrollment_exercise /\ get_enrollment_for(call.profile) = None)
                  => call.result =
                        [ok |-> is_course_staff(call.profile),
                         warnings |-> <<[msg |-> "must_enroll"]>>,
                         students |-> <<call.profile>>]

\* a staff member who may not enroll is turned away from an enrollment exercise
\* that is open, although a group is requested that the earlier submission of
\* the requester does not match
C12_Witness ==
    /\ call.op = "is_submission_allowed"
    /\ exercise.status = "enrollment_ext"
    /\ is_course_staff(call.profile)
    /\ ~is_enrollable(call.profile)
    /\ get_enrollment_for(call.profile) # None
    /\ get_timing(<<call.profile>>, now).timing = "OPEN"
    /\ Len(PriorSubmissions) > 0
    /\ RequestedGroup # 0
    /\ call.result.warnings = <<[msg |-> "cannot_enroll"]>>
    /\ ~call.result.ok

\* a staff member without an enrollment is let through before the module opens
C12_WitnessMustEnroll ==
    /\ call.op = "is_submission_allowed"
    /\ exercise.status = "hidden"
    /\ is_course_staff(call.profile)
    /\ get_enrollment_for(call.profile) = None
    /\ now < course_module.opening_time
    /\ Len(PriorSubmissions) > 0
    /\ call.result.ok
    /\ call.result.warnings = <<[msg |-> "must_enroll"]>>

\* C13: a lookup that starts after the invalidation of a save has completed
\* never returns a payload generated from the object's state before that save:
\* what a finished lookup holds is at least as new as the newest save whose
\* receivers had all run when the lookup read the cache.
C13_NoStalePayloadAfterSave ==
    \A w \in Workers :
        lookup[w].pc = "done" => lookup[w].data.version >= lookup[w].started_at

\* C14: a generation that sets the dirty mark is handed to its caller only: the
\* lookup does not write and leaves the cache as it was, no stored entry is a
\* dirty payload, and no lookup is served a dirty payload from the cache.
C14_DirtyNeverCached ==
    /\ \A k \in DOMAIN cache : ~cache[k].fallback
    /\ \A w \in Workers :
          lookup[w].pc = "done" =>
              /\ lookup[w].dirty => (~lookup[w].wrote /\ ~lookup[w].changed)
              /\ ~lookup[w].generated => ~lookup[w].data.fallback

\* a lookup ended with a dirty payload, the key is still absent and the next
\* lookup of the key is generating again
C14_Witness ==
    \E w, v \in Workers :
        /\ lookup[w].pc = "done"
        /\ lookup[w].dirty
        /\ lookup[w].data.fallback
        /\ lookup[v].pc = "generating"
        /\ lookup_key(lookup[v]) = lookup_key(lookup[w])
        /\ lookup_key(lookup[w]) \notin DOMAIN cache

\* the lookup of worker w read its key right after an invalidation of that
\* key, which removed a stored payload: no step of a request came in between
AfterInvalidation(w) ==
    lookup[w].pc \notin {"idle", "off", "loaded"} /\ lookup[w].invalidated # None

\* C15 as claimed: invalidate(key) followed by a lookup of the key finds the
\* entry absent, generates again, and returns and stores the fresh payload,
\* never the payload stored before the invalidation.
C15_RoundTripStoresFresh ==
    \A w \in Workers :
        AfterInvalidation(w) =>
            /\ lookup[w].found = None
            /\ lookup[w].pc = "done" =>
                  /\ lookup[w].generated
                  /\ lookup[w].data.version = lookup[w].instance.version
                  /\ lookup[w].wrote

\* C15 as amended: invalidate(key) followed by a lookup of the key finds the
\* entry absent, generates again from the instance the lookup was given and
\* returns that payload, not an entry read from the cache; it stores the
\* payload exactly when the new generation did not set the dirty mark.
C15_RoundTripReturnsFresh ==
    \A w \in Workers :
        AfterInvalidation(w) =>
            /\ lookup[w].found = None
            /\ lookup[w].pc = "done" =>
                  /\ lookup[w].generated
                  /\ lookup[w].data.version = lookup[w].instance.version
                  /\ lookup[w].wrote <=> ~lookup[w].dirty

C15_Witness ==
    \E w \in Workers :
        /\ AfterInvalidation(w)
        /\ lookup[w].pc = "done"
        /\ lookup[w].wrote
        /\ lookup_key(lookup[w]) \in DOMAIN cache
        /\ cache[lookup_key(lookup[w])] = lookup[w].data
        /\ cache[lookup_key(lookup[w])] # lookup[w].invalidated

\* the round trip after the invalidation of a save ended with a dirty payload
\* and stored nothing
C15_WitnessDirty ==
    \E w \in Workers :
        /\ AfterInvalidation(w)
        /\ lookup[w].pc = "done"
        /\ lookup[w].dirty
        /\ ~lookup[w].wrote
        /\ lookup[w].started_at > lookup[w].invalidated.version

\* C16 as claimed: every write to the cache targets a key that is absent at the
\* moment of the write, concurrent lookups of one key included.
C16_NeverOverwritten ==
    \A w \in Workers : lookup[w].pc = "done" => ~lookup[w].overwrote

\* C16 as amended: every write to the cache is made by a lookup whose own read
\* found the key absent; a lookup that read an entry writes nothing.  When two
\* lookups of one key both miss, both write and the later write replaces the
\* earlier entry.
C16_WrittenOnlyAfterMiss ==
    \A w \in Workers :
        lookup[w].pc = "done" =>
            /\ lookup[w].wrote => lookup[w].found = None
            /\ lookup[w].found # None =>
                  (~lookup[w].generated /\ ~lookup[w].changed)

\* two lookups of one key both missed and both wrote
C16_Witness ==
    \E w, v \in Workers :
        /\ w # v
        /\ lookup[w].pc = "done" /\ lookup[v].pc = "done"
        /\ lookup_key(lookup[w]) = lookup_key(lookup[v])
        /\ lookup[w].wrote /\ lookup[v].wrote
        /\ lookup[v].overwrote

\* C17: when a learning object that has a parent is saved, no cache entry of the
\* parent remains for any configured language once the save is done.
C17_ParentInvalidatedOnSave ==
    (call.op = "save" /\ learning_objects[call.obj].parent # 0)
        => \A i \in DOMAIN LANGUAGES :
               cache_key(<<learning_objects[call.obj].parent>>, <<LANGUAGES[i]>>)
                   \notin DOMAIN cache

\* C18: every save and every delete of a learning object, whatever its class,
\* leaves no cache entry keyed by (that object, language) for any configured
\* language when it returns, so that the first lookup after it generates again.
C18_InvalidatedOnSaveAndDelete ==
    call.op \in {"save", "delete"}
        => \A i \in DOMAIN LANGUAGES :
               cache_key(<<call.obj>>, <<LANGUAGES[i]>>) \notin DOMAIN cache

\* the stored rows of the given students in the order they are met: the
\* students in the given order, each student's rows in stored order
RECURSIVE Encountered(_)
Encountered(students) ==
    IF students = <<>> THEN <<>>
    ELSE SelectSeq(deadlineruledeviation_set,
                   LAMBDA d : d.submitter = Head(students))
            \o Encountered(Tail(students))

\* C19: one_has_deadline_deviation returns None exactly when no given student
\* has a deviation; otherwise it returns a deviation of a given student whose new
\* deadline is maximal, and among those with the maximal deadline the first one
\* met (students in the given order, each student's rows in stored order).
C19_LatestDeadlineFirstSeen ==
    call.op = "one_has_deadline_deviation" =>
        LET seen == Encountered(call.students)
        IN /\ (call.result = None) <=>
                 ~\E i \in DOMAIN deadlineruledeviation_set :
                      deadlineruledeviation_set[i].submitter \in Range(call.students)
           /\ call.result # None =>
                 \E i \in DOMAIN seen :
                     /\ call.result = seen[i]
                     /\ \A j \in DOMAIN seen :
                            get_new_deadline(seen[j]) <= get_new_deadline(seen[i])
                     /\ \A j \in 1..(i - 1) :
                            get_new_deadline(seen[j]) < get_new_deadline(seen[i])

\* three rows share the latest deadline; student 2 is given first and the answer
\* is the first stored row of student 2, although a row of student 1 is stored
\* before it and another row of student 2 after it
C19_Witness ==
    /\ call.op = "one_has_deadline_deviation"
    /\ call.students = <<2, 1>>
    /\ Len(deadlineruledeviation_set) = 3
    /\ deadlineruledeviation_set[1].submitter = 1
    /\ deadlineruledeviation_set[2].submitter = 2
    /\ deadlineruledeviation_set[3].submitter = 2
    /\ \A i \in 1..3 : deadlineruledeviation_set[i].extra_minutes = MaxExtra
    /\ deadlineruledeviation_set[2].without_late_penalty
    /\ ~deadlineruledeviation_set[3].without_late_penalty
    /\ call.result = deadlineruledeviation_set[2]

\* the module is past OPEN at the instant: opened, no longer open, and the
\* category is not confirm-the-level
PastOpen(when) ==
    /\ is_after_open(when)
    /\ ~is_open(when)
    /\ ~category.confirm_the_level

\* the deadline the selected deviation of the students gives, NoTime without one
DeviationDeadline(students) ==
    LET deviation == one_has_deadline_deviation(students)
    IN IF deviation # None THEN get_new_deadline(deviation) ELSE NoTime

\* C21: the timing states are tested in the order CLOSED_BEFORE, OPEN, ARCHIVED
\* and then the rest, the first match winning: before the opening time
\* get_timing returns (CLOSED_BEFORE, opening time) whatever the category, the
\* archive time and the deviations; from the opening time on, an open module or a
\* confirm-the-level category gives OPEN even on an archived course; and past
\* OPEN an archived course gives (ARCHIVED, archive time) whatever the
\* deviations and the late-submission window.
C21_FirstMatchWins ==
    call.op = "get_timing" =>
        /\ ~is_after_open(call.when) =>
               call.result =
                  [timing |-> "CLOSED_BEFORE", dl |-> course_module.opening_time]
        /\ (is_after_open(call.when)
               /\ (is_open(call.when) \/ category.confirm_the_level)) =>
               call.result.timing = "OPEN"
        /\ (PastOpen(call.when) /\ is_archived(call.when)) =>
               call.result =
                  [timing |-> "ARCHIVED", dl |-> course_instance.archive_time]

\* archived past OPEN while the submitters' deviation deadline is still ahead
\* and the module's late-submission window is open
C21_Witness ==
    /\ call.op = "get_timing"
    /\ PastOpen(call.when)
    /\ is_archived(call.when)
    /\ DeviationDeadline(call.students) > call.when
    /\ is_late_submission_open(call.when)
    /\ call.result.timing = "ARCHIVED"

\* not yet open, on an archived course, for a confirm-the-level category and
\* submitters with a deviation
C21_WitnessClosedBefore ==
    /\ call.op = "get_timing"
    /\ ~is_after_open(call.when)
    /\ is_archived(call.when)
    /\ category.confirm_the_level
    /\ one_has_deadline_deviation(call.students) # None
    /\ call.result.timing = "CLOSED_BEFORE"

\* none of the students' deviations gives a deadline at or after the instant
NoDeviationReaches(students, when) ==
    \A i \in DOMAIN deadlineruledeviation_set :
        deadlineruledeviation_set[i].submitter \in Range(students)
            => get_new_deadline(deadlineruledeviation_set[i]) < when

\* C22: with the module past OPEN and the course not archived, a selected
\* deviation that keeps the late penalty and whose new deadline is at or after
\* the instant makes get_timing return (LATE, that deadline); and when no
\* deviation deadline is at or after the instant and the module's late-submission
\* window is open, get_timing returns (LATE, the module's late-submission
\* deadline).
C22_Late ==
    (call.op = "get_timing" /\ PastOpen(call.when) /\ ~is_archived(call.when)) =>
        LET deviation == one_has_deadline_deviation(call.students)
        IN /\ (/\ deviation # None
                /\ ~deviation.without_late_penalty
                /\ get_new_deadline(deviation) >= call.when) =>
                  call.result =
                     [timing |-> "LATE", dl |-> get_new_deadline(deviation)]
           /\ (/\ NoDeviationReaches(call.students, call.when)
                /\ is_late_submission_open(call.when)) =>
                  call.result =
                     [timing |-> "LATE",
                      dl |-> course_module.late_submission_deadline]

\* LATE on the module's own window, after the submitters' deviation has run out
C22_Witness ==
    /\ call.op = "get_timing"
    /\ PastOpen(call.when)
    /\ ~is_archived(call.when)
    /\ one_has_deadline_deviation(call.students) # None
    /\ NoDeviationReaches(call.students, call.when)
    /\ is_late_submission_open(call.when)
    /\ call.result.timing = "LATE"
    /\ call.result.dl > call.when

\* LATE exactly at the deviation's deadline, later than the module's own
\* late-submission deadline
C22_WitnessDeviation ==
    /\ call.op = "get_timing"
    /\ PastOpen(call.when)
    /\ course_instance.archive_time > call.when
    /\ course_module.late_submissions_allowed
    /\ DeviationDeadline(call.students) = call.when
    /\ course_module.late_submission_deadline < call.when
    /\ call.result = [timing |-> "LATE", dl |-> call.when]

\* the module has opened and is no longer open at the instant
ModuleClosed(when) == is_after_open(when) /\ ~is_open(when)

\* the deadline reported past all deadlines: the deviation's if the students
\* have one, else the module's late-submission deadline if late submissions are
\* allowed, else the closing time
BestDeadline(students) ==
    IF DeviationDeadline(students) # NoTime THEN DeviationDeadline(students)
    ELSE IF course_module.late_submissions_allowed
    THEN course_module.late_submission_deadline
    ELSE course_module.closing_time

\* nothing lets the students submit officially at the instant: the course is
\* not archived, no deviation deadline reaches the instant and the module's
\* late-submission window is not open
PastAllDeadlines(students, when) ==
    /\ ~is_archived(when)
    /\ NoDeviationReaches(students, when)
    /\ ~is_late_submission_open(when)

ClosedAfterAnswer(students, when) ==
    [timing |-> IF category.accept_unofficial_submits
                THEN "UNOFFICIAL" ELSE "CLOSED_AFTER",
     dl |-> BestDeadline(students)]

\* C23 as claimed: when the module is closed, the course is not archived, no
\* deviation deadline is at or after the instant and the late-submission window
\* is not open, get_timing returns UNOFFICIAL if the category accepts unofficial
\* submissions and CLOSED_AFTER otherwise, with the best available deadline,
\* which is strictly before the instant; whatever the category's
\* confirm-the-level flag.
C23_ClosedWhateverCategory ==
    (/\ call.op = "get_timing"
     /\ ModuleClosed(call.when)
     /\ PastAllDeadlines(call.students, call.when))
        => /\ call.result = ClosedAfterAnswer(call.students, call.when)
           /\ call.result.dl < call.when

\* C23 as amended: the same for a category that is not confirm-the-level.
C23_ClosedAfterAllDeadlines ==
    (/\ call.op = "get_timing"
     /\ PastOpen(call.when)
     /\ PastAllDeadlines(call.students, call.when))
        => /\ call.result = ClosedAfterAnswer(call.students, call.when)
           /\ call.result.dl < call.when

\* UNOFFICIAL with the expired deviation's deadline, although the module's
\* late-submission deadline, expired too, is another instant
C23_Witness ==
    /\ call.op = "get_timing"
    /\ PastOpen(call.when)
    /\ PastAllDeadlines(call.students, call.when)
    /\ course_module.late_submissions_allowed
    /\ DeviationDeadline(call.students) # NoTime
    /\ DeviationDeadline(call.students) # course_module.late_submission_deadline
    /\ call.result =
          [timing |-> "UNOFFICIAL", dl |-> DeviationDeadline(call.students)]

\* what the claim gives for a timing answer t: the verdict and the warnings
AccessAnswer(t) ==
    CASE t.timing = "OPEN" -> [ok |-> TRUE, warnings |-> <<>>]
      [] t.timing = "LATE" ->
            [ok |-> TRUE,
             warnings |-> <<[msg |-> "late_allowed_until", date |-> t.dl,
                             percent |-> get_late_submission_point_worth]>>]
      [] t.timing = "UNOFFICIAL" ->
            [ok |-> TRUE,
             warnings |-> <<[msg |-> "unofficial_feedback_only", date |-> t.dl]>>]
      [] t.timing = "CLOSED_BEFORE" ->
            [ok |-> FALSE, warnings |-> <<[msg |-> "opens", date |-> t.dl]>>]
      [] t.timing = "CLOSED_AFTER" ->
            [ok |-> FALSE, warnings |-> <<[msg |-> "deadline_passed", date |-> t.dl]>>]
      [] t.timing = "ARCHIVED" ->
            [ok |-> FALSE, warnings |-> <<[msg |-> "archived", date |-> t.dl]>>]

ClosedTimings == {"CLOSED_BEFORE", "CLOSED_AFTER", "ARCHIVED"}

\* C24: one_has_access answers by the timing state: OPEN allows without
\* warning, LATE allows with the one warning that carries the deadline and the
\* late point worth, UNOFFICIAL allows with the one feedback-only warning, and
\* CLOSED_BEFORE, CLOSED_AFTER and ARCHIVED each deny with one warning; and an
\* attempt whose submitters are not all course staff is never allowed while
\* their timing state is CLOSED_BEFORE, CLOSED_AFTER or ARCHIVED.
C24_AccessByTiming ==
    /\ call.op = "one_has_access" =>
           call.result = AccessAnswer(get_timing(call.students, now))
    /\ (/\ call.op = "is_submission_allowed"
         /\ ~AllStaff(call.result.students)
         /\ get_timing(call.result.students, now).timing \in ClosedTimings)
            => ~call.result.ok

\* a group attempt by a student on an archived course, denied with the archive
\* warning alone although a deviation of a submitter is still running
C24_Witness ==
    /\ ReachedFinalChecks
    /\ Len(call.result.students) = 2
    /\ ~AllStaff(call.result.students)
    /\ DeviationDeadline(call.result.students) > now
    /\ ~call.result.ok
    /\ call.result.warnings =
          <<[msg |-> "archived", date |-> course_instance.archive_time]>>

\* one_has_access on a LATE state: allowed, with the late warning
C24_WitnessLate ==
    /\ call.op = "one_has_access"
    /\ call.result.ok
    /\ Len(call.result.warnings) = 1
    /\ call.result.warnings[1].msg = "late_allowed_until"
    /\ call.result.warnings[1].date > now
    /\ call.result.warnings[1].percent = 50

\* the group-size warnings of a warning list
SizeWarnings(warnings) == SelectSeq(warnings, LAMBDA w : w.msg = "group_size")

\* C25: an attempt that gets to the group-size check has as submitters the
\* members of the selected group, or the requester alone without a group; when
\* their number is outside [min_group_size, max_group_size] the one group-size
\* warning is listed and the attempt is allowed exactly when every submitter is
\* course staff; when the number is within the range there is no group-size
\* warning.
C25_GroupSizeCheck ==
    ReachedFinalChecks =>
        LET students == call.result.students
            outside == \/ Len(students) < exercise.min_group_size
                       \/ Len(students) > exercise.max_group_size
        IN /\ students = IF RequestedGroup # 0
                         THEN student_groups[RequestedGroup]
                         ELSE <<call.profile>>
           /\ outside =>
                 /\ SizeWarnings(call.result.warnings) =
                       <<[msg |-> "group_size", size |-> size_text]>>
                 /\ call.result.ok = AllStaff(students)
           /\ ~outside => SizeWarnings(call.result.warnings) = <<>>

\* a staff member alone on an exercise for groups of two: the warning is
\* listed and the attempt allowed, even while the timing denies access
C25_Witness ==
    /\ ReachedFinalChecks
    /\ call.result.students = <<call.profile>>
    /\ AllStaff(call.result.students)
    /\ exercise.min_group_size = 2
    /\ ~one_has_access(call.result.students, NoTime).ok
    /\ HasMsg(call.result.warnings, {"group_size"})
    /\ call.result.ok

\* two students on an exercise for one: denied with the warning while the
\* module is open
C25_WitnessDenied ==
    /\ ReachedFinalChecks
    /\ Len(call.result.students) = 2
    /\ exercise.max_group_size = 1
    /\ one_has_access(call.result.students, NoTime).ok
    /\ call.result.warnings = <<[msg |-> "group_size", size |-> <<1>>]>>
    /\ ~call.result.ok

\* C26: a stored entry stays until its own key is invalidated: the keys set
\* since their last invalidation are the keys present; a lookup of a key that
\* has been set since its last invalidation finds the entry, runs no generator
\* and returns the payload that was stored, whichever store of that interval it
\* was; and the invalidation of one key leaves every entry of another key in
\* place with its payload.
C26_KeptUntilInvalidated ==
    /\ DOMAIN written = DOMAIN cache
    /\ \A w \in Workers :
          (lookup[w].pc = "done" /\ lookup[w].written_before # {}) =>
              /\ lookup[w].found # None
              /\ ~lookup[w].generated
              /\ \A payload \in lookup[w].written_before :
                     lookup[w].data = payload
    /\ last_invalidation # None =>
          \A k \in DOMAIN last_invalidation.before \ {last_invalidation.key} :
              k \in DOMAIN cache /\ cache[k] = last_invalidation.before[k]

\* C27: when submissions are created one attempt at a time, only from an
\* allowed verdict and credited to the returned submitters, any two stored
\* submissions that share a student have the same submitter set.
C27_OneSubmitterSetPerStudent ==
    \A i, j \in DOMAIN submissions :
        Range(submissions[i].submitters) \cap Range(submissions[j].submitters) # {}
            => Range(submissions[i].submitters) = Range(submissions[j].submitters)

\* a group has submitted twice, and a member's attempt with another group is
\* turned away
C27_Witness ==
    /\ Len(submissions) = 2
    /\ Len(submissions[1].submitters) = 2
    /\ Range(submissions[1].submitters) = Range(submissions[2].submitters)
    /\ call.op = "is_submission_allowed"
    /\ call.profile \in Range(submissions[1].submitters)
    /\ RequestedGroup # 0
    /\ RequestedMembers # Range(submissions[1].submitters)
    /\ ~call.result.ok

\* C28: no_submissions_left and one_has_submissions are never both true for
\* the same students: whichever of the two is called and answers true, the
\* other one is false for the students of the call.
C28_NeverBothTrue ==
    /\ (call.op = "no_submissions_left" /\ call.result)
           => ~one_has_submissions(call.students)
    /\ (call.op = "one_has_submissions" /\ call.result)
           => ~no_submissions_left(call.students)

\* no_submissions_left is true for two students who are both beyond their
\* maximum, a quota deviation being stored
C28_Witness ==
    /\ call.op = "no_submissions_left"
    /\ call.result
    /\ Len(call.students) = 2
    /\ maxsubmissionsruledeviation_set # <<>>
    /\ \A p \in Range(call.students) :
           NonErrorCount(p) > max_submissions_for_student(p)

====
